---- MODULE Spec2Model ----
(***************************************************************************)
(* The authentication session state machine of the nhost client           *)
(* (createAuthMachine) and its refresh scheduler, as exercised by the     *)
(* machine's test-suite (src/unnamed/part_000).                            *)
(*                                                                         *)
(* Time is counted in units of TOKEN_REFRESH_MARGIN: the margin is 1, an   *)
(* access token lives ACCESS_TOKEN_EXPIRES_IN = 3 margins (900 s in the    *)
(* tests) and the fixed refresh interval is 2 margins (800..900 s in the   *)
(* tests, i.e. shorter than the distance to the seeded expiration date).   *)
(* Tokens, users and dates are small integers; Null stands for null.       *)
(***************************************************************************)
EXTENDS Integers, FiniteSets, TLC

\* ------------------------------------------------------------------ values

Null == -1

TOKEN_REFRESH_MARGIN == 1
ACCESS_TOKEN_EXPIRES_IN == 3
REFRESH_INTERVAL_TIME == 2

\* Bounds of the exploration.
MaxTime == 5
MaxIssued == 2
MaxAttempts == 2
MaxCalls == 2

NHOST_JWT_EXPIRES_AT_KEY == "nhostRefreshTokenExpiresAt"
NHOST_REFRESH_TOKEN_KEY == "nhostRefreshToken"
StorageKeys == {NHOST_JWT_EXPIRES_AT_KEY, NHOST_REFRESH_TOKEN_KEY}

\* The classified errors, as the tests' snapshots show them.
NoError == [error |-> "none", message |-> "", status |-> 0]
NETWORK_ERROR == [error |-> "OK", message |-> "Network Error", status |-> 200]
INVALID_REFRESH_TOKEN ==
    [error |-> "invalid-refresh-token",
     message |-> "Invalid or expired refresh token", status |-> 401]
INTERNAL_ERROR ==
    [error |-> "internal-error", message |-> "Internal error", status |-> 500]
RetriableErrors == {NETWORK_ERROR, INTERNAL_ERROR}
ServerErrors == RetriableErrors \cup {INVALID_REFRESH_TOKEN}

\* faker.date.future(): a date near the start and one far beyond the first
\* refresh interval.
InitialExpirations == {2, 6}
\* fakeUser (the backend's user) and another caller-supplied user.
Users == {1, 2}
\* faker.datatype.uuid() refresh tokens.
RefreshTokens == {1, 2}

\* What the entry URL carries when the application is opened.
Urls == {"none", "refreshToken", "error", "errorDescription"}
\* The status of an error that came with the URL.
URL_ERROR_STATUS == 10

SignedInStates == {"idle", "pending", "refreshing"}
SignedOutStates == {"noErrors", "failed"}

NoSession == [user |-> Null, accessToken |-> Null, accessTokenExpiresIn |-> Null,
              refreshToken |-> Null]

VARIABLES
    authState,            \* leaf state of `authentication`
    user,                 \* context.user
    accessToken,          \* context.accessToken.value
    expiresAt,            \* context.accessToken.expiresAt
    refreshToken,         \* context.refreshToken.value
    attempts,             \* context.refreshTimer.attempts
    errors,               \* context.errors.authentication
    storage,              \* the SessionStore (customStorage)
    refreshIntervalTime,  \* configuration: Null, or the fixed interval
    autoSignIn,           \* configuration: whether the entry URL is consulted
    seed,                 \* Null, or the expiration date of the seeded session
    timer,                \* Null, or the instant the armed refresh timer fires
    startedAt,            \* instant the current pending period began
    exchange,             \* in-flight sign-in call: "none", "tryToken", "start"
    refreshCalls,         \* refresh calls the machine is waiting for
    stale,                \* the kinds of abandoned calls whose response is still to come
    now,                  \* the (simulated) system time
    issued,               \* number of access tokens handed out so far
    netCalls,             \* network calls issued since the last caller event
    last                  \* the last event processed, with its payload

vars == <<authState, user, accessToken, expiresAt, refreshToken, attempts, errors,
          storage, refreshIntervalTime, autoSignIn, seed, timer, startedAt,
          exchange, refreshCalls, stale, now, issued, netCalls, last>>

\* An event as `last` records it: its kind, the error or session it carried,
\* the failed attempts counted when it arrived and the event it came after.
Event(kind, err, session) ==
    [kind |-> kind, error |-> err, session |-> session, attempts |-> attempts,
     after |-> last.kind]

Min(a, b) == IF a < b THEN a ELSE b
Max(a, b) == IF a > b THEN a ELSE b

\* ---------------------------------------------------------- RefreshScheduler

\* A faulty variant: the margin is forgotten, the refresh waits for the expiration itself.
DelayNoMargin(at, exp, interval) ==
    IF interval # Null THEN interval
    ELSE IF exp = Null THEN 0
    ELSE Max(0, exp - at)

\* A faulty variant: the fixed interval is ignored, the token's own expiry decides.
DelayIgnoresInterval(at, exp, interval) ==
    IF exp = Null THEN 0 ELSE Max(0, exp - at - TOKEN_REFRESH_MARGIN)

\* A faulty variant: the margin is taken off twice, the refresh comes too early.
DelayMarginTwice(at, exp, interval) ==
    IF interval # Null THEN interval
    ELSE IF exp = Null THEN 0
    ELSE Max(0, exp - at - 2 * TOKEN_REFRESH_MARGIN)

\* Seconds until the next refresh attempt, computed when the timer is armed.
Delay(at, exp, interval) ==
    IF interval # Null THEN interval
    ELSE IF exp = Null THEN 0
    ELSE Max(0, exp - at - TOKEN_REFRESH_MARGIN)

\* Arming replaces whatever timer was armed before.
ArmTimer(exp) ==
    /\ timer' = now + Delay(now, exp, refreshIntervalTime)
    /\ startedAt' = now

CancelTimer ==
    /\ timer' = Null
    /\ startedAt' = Null

TimerDue == timer # Null /\ now >= timer

\* The awaited calls, by kind: the refresh call and the sign-in exchange.
AwaitedCalls ==
    (IF refreshCalls > 0 THEN {"refresh"} ELSE {}) \cup
    (IF exchange # "none" THEN {"exchange"} ELSE {})

\* The awaited calls of kinds ks are given up: they stay in flight, their
\* responses will come, and be ignored.
Abandon(ks) == stale' = stale \cup (AwaitedCalls \cap ks)

\* ------------------------------------------------------------ SessionStore

\* A faulty variant: only the refresh token is saved, the expiration date that
\* was stored stays.
SaveToStorageTokenOnly(rt, exp) ==
    storage' = [storage EXCEPT ![NHOST_REFRESH_TOKEN_KEY] = rt]

\* A faulty variant: the access token is saved too, under a key of its own.
SaveToStorageWithAccessToken(rt, exp) ==
    storage' = [k \in StorageKeys \cup {"nhostAccessToken"} |->
                  IF k = NHOST_REFRESH_TOKEN_KEY THEN rt
                  ELSE IF k = NHOST_JWT_EXPIRES_AT_KEY THEN exp
                  ELSE accessToken']

\* The refresh token and the expiration date are set, each under its key.
SaveToStorage(rt, exp) ==
    storage' = [k \in StorageKeys |->
                  IF k = NHOST_REFRESH_TOKEN_KEY THEN rt ELSE exp]

\* A faulty variant: the expiration date is removed, the refresh token stays.
ClearStorageKeepsToken ==
    storage' = [storage EXCEPT ![NHOST_JWT_EXPIRES_AT_KEY] = Null]

\* Both keys are removed.
ClearStorage == storage' = [k \in StorageKeys |-> Null]

\* ---------------------------------------------------------------- start

\* A faulty variant: the description of the URL's error is not read.
UrlErrorWithoutDescription(u) ==
    [error |-> INVALID_REFRESH_TOKEN.error,
     message |-> INVALID_REFRESH_TOKEN.error,
     status |-> URL_ERROR_STATUS]

\* The error the entry URL carries (?error=...&errorDescription=...): the
\* message is the description, or the error code when there is none.
UrlError(u) ==
    [error |-> INVALID_REFRESH_TOKEN.error,
     message |-> IF u = "errorDescription" THEN INVALID_REFRESH_TOKEN.message
                 ELSE INVALID_REFRESH_TOKEN.error,
     status |-> URL_ERROR_STATUS]

UrlHasError(auto, u) == auto /\ u \in {"error", "errorDescription"}

\* A faulty variant: the stored refresh token is tried although the URL
\* carries an error.
StartExchangeIgnoresUrlError(auto, u, st) ==
    IF auto /\ u = "refreshToken" THEN "start"
    ELSE IF st[NHOST_REFRESH_TOKEN_KEY] # Null THEN "start"
    ELSE "none"

\* The sign-in call a starting machine without a session issues: for the
\* refresh token of the URL (auto sign-in), else, unless the URL carries an
\* error, for the refresh token found in the storage.
StartExchange(auto, u, st) ==
    IF auto /\ u = "refreshToken" THEN "start"
    ELSE IF UrlHasError(auto, u) THEN "none"
    ELSE IF st[NHOST_REFRESH_TOKEN_KEY] # Null THEN "start"
    ELSE "none"

StartErrors(auto, u) == IF UrlHasError(auto, u) THEN UrlError(u) ELSE NoError

\* The machine built with a seeded session (contextWithUser) over a storage
\* that beforeEach filled on its own.
InitWithSession ==
    /\ seed \in InitialExpirations
    /\ autoSignIn = FALSE
    /\ last = [kind |-> "START", error |-> "none", session |-> NoSession,
               attempts |-> 0, after |-> "none"]
    /\ errors = NoError
    /\ authState = "pending"
    /\ user = 1
    /\ accessToken = 1
    /\ issued = 1
    /\ expiresAt = seed
    /\ refreshToken = 1
    /\ storage = [k \in StorageKeys |-> IF k = NHOST_REFRESH_TOKEN_KEY THEN 2 ELSE 6]
    /\ timer = Delay(0, expiresAt, refreshIntervalTime)
    /\ startedAt = 0
    /\ exchange = "none"

\* The machine built without a session: signed out; a refresh token found in
\* the storage is exchanged for a session.
InitSignedOut ==
    /\ seed = Null
    /\ autoSignIn \in BOOLEAN
    /\ \E u \in Urls :
         /\ (autoSignIn \/ u = "none")
         /\ last = [kind |-> "START", error |-> u, session |-> NoSession,
                    attempts |-> 0, after |-> "none"]
    /\ authState = "noErrors"
    /\ user = Null
    /\ accessToken = Null
    /\ issued = 0
    /\ expiresAt = Null
    /\ refreshToken = Null
    /\ storage \in {[k \in StorageKeys |-> Null],
                    [k \in StorageKeys |-> IF k = NHOST_REFRESH_TOKEN_KEY THEN 2 ELSE 6]}
    /\ timer = Null
    /\ startedAt = Null
    /\ exchange = StartExchange(autoSignIn, last.error, storage)
    /\ errors = StartErrors(autoSignIn, last.error)

Init ==
    /\ refreshIntervalTime \in {Null, REFRESH_INTERVAL_TIME}
    /\ now = 0
    /\ attempts = 0
    /\ refreshCalls = 0
    /\ stale = {}
    /\ (InitWithSession \/ InitSignedOut)
    /\ netCalls = IF exchange = "start" THEN 1 ELSE 0

\* ------------------------------------------------------- caller's events

\* The sessions a caller may hand over: a fresh access token, with or
\* without its lifetime.
Sessions ==
    [user : Users, accessToken : {issued + 1},
     accessTokenExpiresIn : {Null, ACCESS_TOKEN_EXPIRES_IN},
     refreshToken : RefreshTokens]

\* A faulty variant: the session's access token is not kept.
SaveSessionDropsToken(s) ==
    /\ user' = s.user
    /\ accessToken' = Null
    /\ refreshToken' = s.refreshToken
    /\ expiresAt' = IF s.accessTokenExpiresIn = Null THEN Null
                    ELSE now + s.accessTokenExpiresIn
    /\ SaveToStorage(refreshToken', expiresAt')

\* A faulty variant: the refresh token of the session is not taken over.
SaveSessionKeepsRefreshToken(s) ==
    /\ user' = s.user
    /\ accessToken' = s.accessToken
    /\ refreshToken' = refreshToken
    /\ expiresAt' = IF s.accessTokenExpiresIn = Null THEN Null
                    ELSE now + s.accessTokenExpiresIn
    /\ SaveToStorage(refreshToken', expiresAt')

\* saveSession: the session goes to the context, the refresh token and the
\* expiration date go to the storage.
SaveSession(s) ==
    /\ user' = s.user
    /\ accessToken' = s.accessToken
    /\ refreshToken' = s.refreshToken
    /\ expiresAt' = IF s.accessTokenExpiresIn = Null THEN Null
                    ELSE now + s.accessTokenExpiresIn
    /\ SaveToStorage(refreshToken', expiresAt')

\* A faulty variant: without an expiration date the refresh is left to the timer.
SessionUpdateWaitsForTimer(s) ==
    /\ authState \in SignedOutStates
    /\ issued < MaxIssued
    /\ issued' = issued + 1
    /\ SaveSession(s)
    /\ attempts' = 0
    /\ errors' = NoError
    /\ exchange' = "none"
    /\ authState' = "pending"
    /\ ArmTimer(expiresAt')
    /\ netCalls' = 0
    /\ UNCHANGED refreshCalls
    /\ Abandon({"exchange"})
    /\ last' = Event("SESSION_UPDATE", "none", s)
    /\ UNCHANGED <<refreshIntervalTime, autoSignIn, seed, now>>

\* SESSION_UPDATE { session }, sent while signed out.
SessionUpdate(s) ==
    /\ authState \in SignedOutStates
    /\ issued < MaxIssued
    /\ issued' = issued + 1
    /\ SaveSession(s)
    /\ attempts' = 0
    /\ errors' = NoError
    /\ exchange' = "none"
    /\ IF s.accessTokenExpiresIn # Null
         THEN /\ authState' = "pending"
              /\ ArmTimer(expiresAt')
              /\ netCalls' = 0
              /\ UNCHANGED refreshCalls
         ELSE \* no expiration date: refresh at once
              /\ authState' = "refreshing"
              /\ CancelTimer
              /\ netCalls' = 1
              /\ refreshCalls' = refreshCalls + 1
    /\ Abandon({"exchange"})
    /\ last' = Event("SESSION_UPDATE", "none", s)
    /\ UNCHANGED <<refreshIntervalTime, autoSignIn, seed, now>>

\* TRY_TOKEN { token }, sent while signed out: the token is exchanged.
TryToken ==
    /\ authState \in SignedOutStates
    /\ exchange = "none"
    /\ exchange' = "tryToken"
    /\ netCalls' = 1
    /\ last' = Event("TRY_TOKEN", "none", NoSession)
    /\ UNCHANGED <<refreshCalls, stale>>
    /\ UNCHANGED <<authState, user, accessToken, expiresAt, refreshToken, attempts,
                   errors, storage, refreshIntervalTime, autoSignIn, seed, timer, startedAt, now, issued>>

\* A faulty variant: the context is cleared, the storage is not.
SignedOutKeepsStorage ==
    /\ authState \in SignedInStates
    /\ authState' = "noErrors"
    /\ user' = Null
    /\ accessToken' = Null
    /\ expiresAt' = Null
    /\ refreshToken' = Null
    /\ attempts' = 0
    /\ errors' = NoError
    /\ CancelTimer
    /\ netCalls' = 0
    /\ last' = Event("SIGNED_OUT", "none", NoSession)
    /\ Abandon({"refresh"})
    /\ refreshCalls' = 0
    /\ UNCHANGED <<storage, refreshIntervalTime, autoSignIn, seed, exchange, now, issued>>

\* SIGNED_OUT, in any signed-in state.
SignedOut ==
    /\ authState \in SignedInStates
    /\ authState' = "noErrors"
    /\ user' = Null
    /\ accessToken' = Null
    /\ expiresAt' = Null
    /\ refreshToken' = Null
    /\ attempts' = 0
    /\ errors' = NoError
    /\ ClearStorage
    /\ CancelTimer
    /\ netCalls' = 0
    /\ last' = Event("SIGNED_OUT", "none", NoSession)
    /\ Abandon({"refresh"})
    /\ refreshCalls' = 0
    /\ UNCHANGED <<refreshIntervalTime, autoSignIn, seed, exchange, now, issued>>

\* ------------------------------------------------------------- the timer

\* A faulty variant: the timer that fired stays armed during the refresh.
TimerFireKeepsTimer ==
    /\ authState = "pending"
    /\ TimerDue
    /\ authState' = "refreshing"
    /\ netCalls' = Min(netCalls + 1, MaxCalls)
    /\ last' = Event("TIMER", "none", NoSession)
    /\ refreshCalls' = refreshCalls + 1
    /\ UNCHANGED <<stale, timer, startedAt>>
    /\ UNCHANGED <<user, accessToken, expiresAt, refreshToken, attempts, errors,
                   storage, refreshIntervalTime, autoSignIn, seed, exchange, now, issued>>

\* running.pending -> running.refreshing: the armed timer fires and the
\* refresh call is issued.
TimerFire ==
    /\ authState = "pending"
    /\ TimerDue
    /\ authState' = "refreshing"
    /\ CancelTimer
    /\ netCalls' = Min(netCalls + 1, MaxCalls)
    /\ last' = Event("TIMER", "none", NoSession)
    /\ refreshCalls' = refreshCalls + 1
    /\ UNCHANGED stale
    /\ UNCHANGED <<user, accessToken, expiresAt, refreshToken, attempts, errors,
                   storage, refreshIntervalTime, autoSignIn, seed, exchange, now, issued>>

\* Time passes; a due timer fires before time moves on.
Tick ==
    /\ now < MaxTime
    /\ ~TimerDue
    /\ now' = now + 1
    /\ UNCHANGED <<authState, user, accessToken, expiresAt, refreshToken, attempts,
                   errors, storage, refreshIntervalTime, autoSignIn, seed, timer, startedAt,
                   exchange, refreshCalls, stale, issued, netCalls, last>>

\* ------------------------------------------------- the backend's answers

\* The session the backend answers with: a new access token with the
\* standard lifetime, and a refresh token.
ServerSessions(u) ==
    [user : u, accessToken : {issued + 1},
     accessTokenExpiresIn : {ACCESS_TOKEN_EXPIRES_IN},
     refreshToken : RefreshTokens]

\* A faulty variant: the failed attempts are not forgotten after a success.
RefreshDoneKeepsAttempts(s) ==
    /\ authState = "refreshing"
    /\ issued < MaxIssued
    /\ issued' = issued + 1
    /\ SaveSession(s)
    /\ attempts' = attempts
    /\ errors' = NoError
    /\ authState' = "pending"
    /\ ArmTimer(expiresAt')
    /\ last' = Event("REFRESH_DONE", "none", s)
    /\ refreshCalls' = refreshCalls - 1
    /\ UNCHANGED stale
    /\ UNCHANGED <<refreshIntervalTime, autoSignIn, seed, exchange, now, netCalls>>

\* A faulty variant: the error of an earlier failed attempt outlives a
\* successful refresh.
RefreshDoneKeepsErrors(s) ==
    /\ authState = "refreshing"
    /\ issued < MaxIssued
    /\ issued' = issued + 1
    /\ SaveSession(s)
    /\ attempts' = 0
    /\ errors' = errors
    /\ authState' = "pending"
    /\ ArmTimer(expiresAt')
    /\ last' = Event("REFRESH_DONE", "none", s)
    /\ refreshCalls' = refreshCalls - 1
    /\ UNCHANGED stale
    /\ UNCHANGED <<refreshIntervalTime, autoSignIn, seed, exchange, now, netCalls>>

\* running.refreshing, the refresh succeeds: the session is saved, the
\* attempts are reset and the timer is armed again.
RefreshDone(s) ==
    /\ authState = "refreshing"
    /\ issued < MaxIssued
    /\ issued' = issued + 1
    /\ SaveSession(s)
    /\ attempts' = 0
    /\ errors' = NoError
    /\ authState' = "pending"
    /\ ArmTimer(expiresAt')
    /\ last' = Event("REFRESH_DONE", "none", s)
    /\ refreshCalls' = refreshCalls - 1
    /\ UNCHANGED stale
    /\ UNCHANGED <<refreshIntervalTime, autoSignIn, seed, exchange, now, netCalls>>

\* A faulty variant: an invalid refresh token signs the user out.
RefreshErrorSignsOut(e) ==
    /\ authState = "refreshing"
    /\ attempts < MaxAttempts
    /\ errors' = e
    /\ last' = Event("REFRESH_ERROR", e.error, NoSession)
    /\ refreshCalls' = refreshCalls - 1
    /\ UNCHANGED stale
    /\ IF e = INVALID_REFRESH_TOKEN
         THEN /\ authState' = "failed"
              /\ user' = Null
              /\ accessToken' = Null
              /\ expiresAt' = Null
              /\ refreshToken' = Null
              /\ attempts' = 0
              /\ ClearStorage
              /\ CancelTimer
         ELSE /\ authState' = "pending"
              /\ attempts' = attempts + 1
              /\ ArmTimer(expiresAt)
              /\ UNCHANGED <<user, accessToken, expiresAt, refreshToken, storage>>
    /\ UNCHANGED <<refreshIntervalTime, autoSignIn, seed, exchange, now, issued, netCalls>>

\* A faulty variant: a failed attempt is not counted.
RefreshErrorNotCounted(e) ==
    /\ authState = "refreshing"
    /\ attempts < MaxAttempts
    /\ errors' = e
    /\ last' = Event("REFRESH_ERROR", e.error, NoSession)
    /\ refreshCalls' = refreshCalls - 1
    /\ UNCHANGED stale
    /\ authState' = "pending"
    /\ attempts' = attempts
    /\ ArmTimer(expiresAt)
    /\ UNCHANGED <<user, accessToken, expiresAt, refreshToken, storage,
                   refreshIntervalTime, autoSignIn, seed, exchange, now, issued, netCalls>>

\* A faulty variant: a failed attempt drops the access token.
RefreshErrorDropsToken(e) ==
    /\ authState = "refreshing"
    /\ attempts < MaxAttempts
    /\ errors' = e
    /\ last' = Event("REFRESH_ERROR", e.error, NoSession)
    /\ refreshCalls' = refreshCalls - 1
    /\ UNCHANGED stale
    /\ authState' = "pending"
    /\ attempts' = attempts + 1
    /\ accessToken' = Null
    /\ ArmTimer(expiresAt)
    /\ UNCHANGED <<user, expiresAt, refreshToken, storage,
                   refreshIntervalTime, autoSignIn, seed, exchange, now, issued, netCalls>>

\* running.refreshing, the refresh fails (network error, internal error or
\* an unauthorized answer alike): the attempt is counted, the session is
\* kept and the timer is armed again.
\* A faulty variant: each failed attempt delays the next one further.
RefreshErrorBacksOff(e) ==
    /\ authState = "refreshing"
    /\ attempts < MaxAttempts
    /\ errors' = e
    /\ last' = Event("REFRESH_ERROR", e.error, NoSession)
    /\ refreshCalls' = refreshCalls - 1
    /\ UNCHANGED stale
    /\ authState' = "pending"
    /\ attempts' = attempts + 1
    /\ timer' = now + Delay(now, expiresAt, refreshIntervalTime) + attempts
    /\ startedAt' = now
    /\ UNCHANGED <<user, accessToken, expiresAt, refreshToken, storage,
                   refreshIntervalTime, autoSignIn, seed, exchange, now, issued, netCalls>>

\* running.refreshing, the refresh fails: the session is kept, the attempt
\* is counted and the timer is armed again, by the same delay policy.
RefreshError(e) ==
    /\ authState = "refreshing"
    /\ attempts < MaxAttempts
    /\ errors' = e
    /\ last' = Event("REFRESH_ERROR", e.error, NoSession)
    /\ refreshCalls' = refreshCalls - 1
    /\ UNCHANGED stale
    /\ authState' = "pending"
    /\ attempts' = attempts + 1
    /\ ArmTimer(expiresAt)
    /\ UNCHANGED <<user, accessToken, expiresAt, refreshToken, storage,
                   refreshIntervalTime, autoSignIn, seed, exchange, now, issued, netCalls>>

\* The exchange of a token (TRY_TOKEN, or the refresh token found at start)
\* succeeds: signed in.
ExchangeDone(s) ==
    /\ authState \in SignedOutStates
    /\ exchange # "none"
    /\ issued < MaxIssued
    /\ issued' = issued + 1
    /\ SaveSession(s)
    /\ attempts' = 0
    /\ errors' = NoError
    /\ exchange' = "none"
    /\ authState' = "pending"
    /\ ArmTimer(expiresAt')
    /\ last' = Event("EXCHANGE_DONE", "none", s)
    /\ UNCHANGED <<refreshCalls, stale>>
    /\ UNCHANGED <<refreshIntervalTime, autoSignIn, seed, now, netCalls>>

\* A faulty variant: a failed TRY_TOKEN is left in signedOut.noErrors.
ExchangeErrorEndsInNoErrors(e) ==
    /\ authState \in SignedOutStates
    /\ exchange # "none"
    /\ exchange' = "none"
    /\ errors' = e
    /\ authState' = "noErrors"
    /\ last' = Event("EXCHANGE_ERROR", e.error, NoSession)
    /\ UNCHANGED <<refreshCalls, stale>>
    /\ UNCHANGED <<user, accessToken, expiresAt, refreshToken, attempts, storage,
                   refreshIntervalTime, autoSignIn, seed, timer, startedAt, now,
                   issued, netCalls>>

\* A faulty variant: the error of a failed sign-in at start is not recorded.
ExchangeErrorForgetsError(e) ==
    /\ authState \in SignedOutStates
    /\ exchange # "none"
    /\ exchange' = "none"
    /\ errors' = IF exchange = "tryToken" THEN e ELSE errors
    /\ authState' = IF exchange = "tryToken" THEN "failed" ELSE "noErrors"
    /\ last' = Event("EXCHANGE_ERROR", e.error, NoSession)
    /\ UNCHANGED <<refreshCalls, stale>>
    /\ UNCHANGED <<user, accessToken, expiresAt, refreshToken, attempts, storage,
                   refreshIntervalTime, autoSignIn, seed, timer, startedAt, now,
                   issued, netCalls>>

\* A faulty variant: every failed sign-in ends in signedOut.failed.
ExchangeErrorAlwaysFailed(e) ==
    /\ authState \in SignedOutStates
    /\ exchange # "none"
    /\ exchange' = "none"
    /\ errors' = e
    /\ authState' = "failed"
    /\ last' = Event("EXCHANGE_ERROR", e.error, NoSession)
    /\ UNCHANGED <<refreshCalls, stale>>
    /\ UNCHANGED <<user, accessToken, expiresAt, refreshToken, attempts, storage,
                   refreshIntervalTime, autoSignIn, seed, timer, startedAt, now,
                   issued, netCalls>>

\* The exchange fails: a TRY_TOKEN ends in signedOut.failed, the sign-in at
\* start ends in signedOut.noErrors; the error is recorded.
ExchangeError(e) ==
    /\ authState \in SignedOutStates
    /\ exchange # "none"
    /\ exchange' = "none"
    /\ errors' = e
    /\ authState' = IF exchange = "tryToken" THEN "failed" ELSE "noErrors"
    /\ last' = Event("EXCHANGE_ERROR", e.error, NoSession)
    /\ UNCHANGED <<refreshCalls, stale>>
    /\ UNCHANGED <<user, accessToken, expiresAt, refreshToken, attempts, storage,
                   refreshIntervalTime, autoSignIn, seed, timer, startedAt, now, issued, netCalls>>

\* A faulty variant: the response to an abandoned call is taken as a session.
StaleResponseSignsIn ==
    /\ \E k \in stale :
         /\ stale' = stale \ {k}
         /\ last' = Event("STALE_RESPONSE", k, NoSession)
    /\ authState' = IF authState = "stopped" THEN "stopped" ELSE "pending"
    /\ user' = 1
    /\ accessToken' = 1
    /\ refreshToken' = 1
    /\ expiresAt' = now + ACCESS_TOKEN_EXPIRES_IN
    /\ SaveToStorage(refreshToken', expiresAt')
    /\ IF authState = "stopped" THEN UNCHANGED <<timer, startedAt>>
                                 ELSE ArmTimer(expiresAt')
    /\ UNCHANGED <<attempts, errors, refreshIntervalTime, autoSignIn, seed,
                   exchange, refreshCalls, now, issued, netCalls>>

\* A faulty variant: while signed in again, the response to the refresh call
\* of the former session is taken for the refresh of the new one.
StaleResponseCountsAsRefresh ==
    /\ \E k \in stale :
         /\ stale' = stale \ {k}
         /\ last' = Event("STALE_RESPONSE", k, NoSession)
         /\ IF k = "refresh" /\ authState \in SignedInStates
              THEN /\ authState' = "pending"
                   /\ user' = 1
                   /\ accessToken' = 1
                   /\ refreshToken' = 1
                   /\ expiresAt' = now + ACCESS_TOKEN_EXPIRES_IN
                   /\ SaveToStorage(refreshToken', expiresAt')
                   /\ attempts' = 0
                   /\ refreshCalls' = 0
                   /\ ArmTimer(expiresAt')
              ELSE UNCHANGED <<authState, user, accessToken, expiresAt,
                               refreshToken, attempts, storage, timer,
                               startedAt, refreshCalls>>
    /\ UNCHANGED <<errors, refreshIntervalTime, autoSignIn, seed, exchange,
                   now, issued, netCalls>>

\* The response to an abandoned call arrives: it is ignored.
StaleResponse ==
    /\ \E k \in stale :
         /\ stale' = stale \ {k}
         /\ last' = Event("STALE_RESPONSE", k, NoSession)
    /\ UNCHANGED <<authState, user, accessToken, expiresAt, refreshToken, attempts,
                   errors, storage, refreshIntervalTime, autoSignIn, seed, timer,
                   startedAt, exchange, refreshCalls, now, issued, netCalls>>

\* ------------------------------------------------------- stop and start

\* A faulty variant: the armed timer survives the stop.
StopKeepsTimer ==
    /\ authState # "stopped"
    /\ authState' = "stopped"
    /\ user' = Null
    /\ accessToken' = Null
    /\ expiresAt' = Null
    /\ refreshToken' = Null
    /\ attempts' = 0
    /\ errors' = NoError
    /\ Abandon({"refresh", "exchange"})
    /\ refreshCalls' = 0
    /\ exchange' = "none"
    /\ netCalls' = 0
    /\ last' = Event("STOP", last.error, NoSession)
    /\ UNCHANGED <<timer, startedAt>>
    /\ UNCHANGED <<storage, refreshIntervalTime, autoSignIn, seed, now, issued>>

\* service.stop(): the timer is cancelled, the calls in flight are given
\* up and the context is discarded; the storage stays. (The STOP event keeps
\* the error of the event it follows.)
Stop ==
    /\ authState # "stopped"
    /\ authState' = "stopped"
    /\ user' = Null
    /\ accessToken' = Null
    /\ expiresAt' = Null
    /\ refreshToken' = Null
    /\ attempts' = 0
    /\ errors' = NoError
    /\ CancelTimer
    /\ Abandon({"refresh", "exchange"})
    /\ refreshCalls' = 0
    /\ exchange' = "none"
    /\ netCalls' = 0
    /\ last' = Event("STOP", last.error, NoSession)
    /\ UNCHANGED <<storage, refreshIntervalTime, autoSignIn, seed, now, issued>>

\* service.start() of a stopped machine, opened at URL u: the machine begins
\* again from its initial context.
Start(u) ==
    /\ authState = "stopped"
    /\ (autoSignIn \/ u = "none")
    /\ attempts' = 0
    /\ last' = Event("START", u, NoSession)
    /\ IF seed # Null
         THEN /\ authState' = "pending"
              /\ user' = 1
              /\ accessToken' = 1
              /\ expiresAt' = seed
              /\ refreshToken' = 1
              /\ ArmTimer(seed)
              /\ exchange' = "none"
              /\ errors' = NoError
         ELSE /\ authState' = "noErrors"
              /\ user' = Null
              /\ accessToken' = Null
              /\ expiresAt' = Null
              /\ refreshToken' = Null
              /\ CancelTimer
              /\ exchange' = StartExchange(autoSignIn, u, storage)
              /\ errors' = StartErrors(autoSignIn, u)
    /\ netCalls' = IF exchange' = "start" THEN 1 ELSE 0
    /\ UNCHANGED <<storage, refreshIntervalTime, autoSignIn, seed, refreshCalls,
                   stale, now, issued>>

\* ------------------------------------------------------------ the machine

Next ==
    \/ \E s \in Sessions : SessionUpdate(s)
    \/ TryToken
    \/ SignedOut
    \/ TimerFire
    \/ Tick
    \/ \E s \in ServerSessions({user}) : RefreshDone(s)
    \/ \E e \in ServerErrors : RefreshError(e)
    \/ \E s \in ServerSessions({1}) : ExchangeDone(s)
    \/ \E e \in ServerErrors : ExchangeError(e)
    \/ StaleResponse
    \/ Stop
    \/ \E u \in Urls : Start(u)

Spec == Init /\ [][Next]_vars

TypeOK ==
    /\ authState \in SignedInStates \cup SignedOutStates \cup {"stopped"}
    /\ attempts \in 0..MaxAttempts
    /\ now \in 0..MaxTime
    /\ issued \in 0..MaxIssued
    /\ exchange \in {"none", "tryToken", "start"}
    /\ stale \subseteq {"refresh", "exchange"}
    /\ refreshCalls \in 0..1

\* ------------------------------------------------------------- the claims

\* A step that is the failure, with error e, of the refresh call in flight.
RefreshFailedWith(e) ==
    /\ authState = "refreshing"
    /\ last'.kind = "REFRESH_ERROR"
    /\ last'.error = e.error

\* A step that is the success of the refresh call in flight.
RefreshSucceeded ==
    /\ authState = "refreshing"
    /\ last'.kind = "REFRESH_DONE"

SessionCleared ==
    /\ user = Null
    /\ accessToken = Null
    /\ refreshToken = Null

C2_UnauthorizedRefreshReturnsToPending ==
    [][RefreshFailedWith(INVALID_REFRESH_TOKEN) =>
         /\ authState' = "pending"
         /\ attempts' > 0]_vars

\* The seeded session (its refresh token is not the stored one), first
\* refresh rejected.
C2_Witness ==
    /\ last.kind = "REFRESH_ERROR"
    /\ last.error = INVALID_REFRESH_TOKEN.error
    /\ last.attempts = 0
    /\ authState = "pending"
    /\ attempts > 0
    /\ accessToken = 1
    /\ storage[NHOST_REFRESH_TOKEN_KEY] # refreshToken

\* C3: a refresh failing with a retriable error (network error, internal
\* error) returns to running.pending with access token, user and refresh
\* token as they were, and attempts exactly one more than before.
C3_RetriableFailureKeepsSession ==
    [][(\E e \in RetriableErrors : RefreshFailedWith(e)) =>
         /\ authState' = "pending"
         /\ accessToken' = accessToken
         /\ user' = user
         /\ refreshToken' = refreshToken
         /\ attempts' = attempts + 1]_vars

\* A second retriable failure in a row.
C3_Witness ==
    /\ last.kind = "REFRESH_ERROR"
    /\ last.error \in {e.error : e \in RetriableErrors}
    /\ last.attempts = 1
    /\ attempts = 2
    /\ authState = "pending"
    /\ accessToken # Null

\* C4 as stated: every successful refresh leaves a non-null access token
\* different from the previous one, an expiresAt strictly greater than the
\* previous one, and attempts = 0.
C4_RefreshRenewsTokenAndExpiry ==
    [][RefreshSucceeded =>
         /\ authState' = "pending"
         /\ accessToken' # Null
         /\ accessToken' # accessToken
         /\ expiresAt' > expiresAt
         /\ attempts' = 0]_vars

\* C4 as amended: every successful refresh leaves a non-null access token
\* different from the previous one and attempts = 0, and sets expiresAt to
\* the time of the refresh plus the token's lifetime; that is strictly
\* greater than the previous expiresAt when the refresh was scheduled by the
\* expiry margin (no refreshIntervalTime configured).
C4_RefreshRenewsToken ==
    [][RefreshSucceeded =>
         /\ authState' = "pending"
         /\ accessToken' # Null
         /\ accessToken' # accessToken
         /\ expiresAt' = now + ACCESS_TOKEN_EXPIRES_IN
         /\ (refreshIntervalTime = Null => expiresAt' > expiresAt)
         /\ attempts' = 0]_vars

\* A success after failed attempts, under the expiry-margin policy.
C4_Witness ==
    /\ last.kind = "REFRESH_DONE"
    /\ last.attempts > 0
    /\ attempts = 0
    /\ refreshIntervalTime = Null
    /\ authState = "pending"
    /\ expiresAt = now + ACCESS_TOKEN_EXPIRES_IN

\* C5: in every reachable state the access token is non-null if and only if
\* the machine is in a signed-in leaf state (idle, running.pending,
\* running.refreshing); in signedOut.noErrors and signedOut.failed it is null.
C5_AccessTokenIffSignedIn ==
    /\ (accessToken # Null) <=> (authState \in SignedInStates)
    /\ authState \in SignedOutStates => accessToken = Null
    /\ authState \in SignedInStates \cup SignedOutStates \cup {"stopped"}

\* Signed out again after a session was refreshed.
C5_Witness ==
    /\ authState \in SignedOutStates
    /\ accessToken = Null
    /\ issued >= 2
    /\ last.kind = "SIGNED_OUT"

\* The instant the expiry-margin policy refreshes at.
MarginInstant == expiresAt - TOKEN_REFRESH_MARGIN

\* C6: under the expiry-margin policy with no failed attempt pending, while
\* the time is earlier than expiresAt minus the margin the machine does not
\* enter running.refreshing, and as long as it stays in running.pending its
\* access token and expiresAt do not change.
C6_NoRefreshBeforeMargin ==
    [][(/\ authState = "pending"
        /\ refreshIntervalTime = Null
        /\ attempts = 0
        /\ now < MarginInstant) =>
         /\ authState' # "refreshing"
         /\ (authState' = "pending" =>
               accessToken' = accessToken /\ expiresAt' = expiresAt)]_vars

\* Time has advanced towards the margin of a refreshed token; nothing moved.
C6_Witness ==
    /\ authState = "pending"
    /\ refreshIntervalTime = Null
    /\ attempts = 0
    /\ last.kind = "REFRESH_DONE"
    /\ now > startedAt
    /\ now < MarginInstant

UpdatedWithoutExpiry ==
    /\ last.kind = "SESSION_UPDATE"
    /\ last.session.accessTokenExpiresIn = Null

\* C9: a SESSION_UPDATE with accessTokenExpiresIn = null received while
\* signed out issues one refresh call at once (no timer is waited for); when
\* that call succeeds the machine is in running.pending with an access token
\* different from the supplied one, a non-null expiry is in the storage under
\* the expiry key, and one call was made.
C9_UpdateWithoutExpiryRefreshes ==
    [][/\ (UpdatedWithoutExpiry' =>
             authState' = "refreshing" /\ netCalls' = 1 /\ timer' = Null)
       /\ (UpdatedWithoutExpiry /\ RefreshSucceeded =>
             /\ authState' = "pending"
             /\ accessToken' # last.session.accessToken
             /\ accessToken' # Null
             /\ storage'[NHOST_JWT_EXPIRES_AT_KEY] # Null
             /\ storage'[NHOST_JWT_EXPIRES_AT_KEY] = expiresAt'
             /\ netCalls' = 1)]_vars

\* The automatic refresh after such an update has succeeded.
C9_Witness ==
    /\ last.kind = "REFRESH_DONE"
    /\ last.after = "SESSION_UPDATE"
    /\ last.attempts = 0
    /\ netCalls = 1
    /\ authState = "pending"
    /\ now = startedAt
    /\ storage[NHOST_JWT_EXPIRES_AT_KEY] # Null

\* C10: a SESSION_UPDATE with a non-null accessTokenExpiresIn received while
\* signed out leaves the machine in running.pending with user, access token
\* and refresh token as supplied and a non-null expiresAt, and no network
\* call is made.
C10_UpdateWithExpirySavesSession ==
    (last.kind = "SESSION_UPDATE" /\ last.session.accessTokenExpiresIn # Null) =>
        /\ authState = "pending"
        /\ user = last.session.user
        /\ accessToken = last.session.accessToken
        /\ refreshToken = last.session.refreshToken
        /\ expiresAt # Null
        /\ netCalls = 0

\* A session supplied after a failed sign-in, with a user of the caller's.
C10_Witness ==
    /\ last.kind = "SESSION_UPDATE"
    /\ last.session.accessTokenExpiresIn # Null
    /\ authState = "pending"
    /\ user = 2
    /\ accessToken = last.session.accessToken
    /\ refreshToken = 1
    /\ expiresAt = startedAt + ACCESS_TOKEN_EXPIRES_IN

\* A step that is the failure, with error e, of the sign-in call in flight.
ExchangeFailedWith(e) ==
    /\ exchange # "none"
    /\ last'.kind = "EXCHANGE_ERROR"
    /\ last'.error = e.error

\* A step that is the success of the sign-in call in flight.
ExchangeSucceeded ==
    /\ exchange # "none"
    /\ last'.kind = "EXCHANGE_DONE"

\* C11: a TRY_TOKEN received while signed out ends in running.pending with
\* a non-null user when the exchange succeeds, and in signedOut.failed with
\* the classified error in errors.authentication when it fails, for a network
\* failure as for an invalid-refresh-token rejection (status 401).
C11_TryTokenOutcome ==
    [][/\ (last'.kind = "TRY_TOKEN" =>
             authState \in SignedOutStates /\ exchange' = "tryToken")
       /\ (exchange = "tryToken" /\ ExchangeSucceeded =>
             authState' = "pending" /\ user' # Null)
       /\ \A e \in ServerErrors :
            (exchange = "tryToken" /\ ExchangeFailedWith(e)) =>
                /\ authState' = "failed"
                /\ errors' = e
                /\ (e.error = "invalid-refresh-token" => errors'.status = 401)]_vars

\* A TRY_TOKEN was rejected with invalid-refresh-token.
C11_Witness ==
    /\ last.kind = "EXCHANGE_ERROR"
    /\ last.after = "TRY_TOKEN"
    /\ authState = "failed"
    /\ errors.error = "invalid-refresh-token"
    /\ errors.status = 401
    /\ user = Null

\* The machine was just started with autoSignIn at a URL carrying an error.
StartedAtUrlError ==
    /\ last.kind = "START"
    /\ UrlHasError(autoSignIn, last.error)

\* C12: started with autoSignIn at a URL carrying an error (and no refresh
\* token), the machine is in signedOut.noErrors without any network call;
\* errors.authentication has the URL's error code, the errorDescription as
\* message, or the error code itself when there is no description, and the
\* status of URL errors.
C12_UrlErrorAtStart ==
    StartedAtUrlError =>
        /\ authState = "noErrors"
        /\ netCalls = 0
        /\ exchange = "none"
        /\ refreshCalls = 0
        /\ errors.error = INVALID_REFRESH_TOKEN.error
        /\ errors.message = IF last.error = "errorDescription"
                            THEN INVALID_REFRESH_TOKEN.message
                            ELSE INVALID_REFRESH_TOKEN.error
        /\ errors.status = URL_ERROR_STATUS

\* Restarted at a URL with an error and its description, over a storage that
\* holds a refresh token.
C12_Witness ==
    /\ last.kind = "START"
    /\ last.after = "STOP"
    /\ autoSignIn
    /\ last.error = "errorDescription"
    /\ errors.message = "Invalid or expired refresh token"
    /\ storage[NHOST_REFRESH_TOKEN_KEY] # Null
    /\ authState = "noErrors"
    /\ netCalls = 0

\* The sign-in call in flight is the one for the refresh token of the URL.
UrlTokenExchange ==
    /\ autoSignIn
    /\ last.kind = "START"
    /\ last.error = "refreshToken"
    /\ exchange = "start"

\* C13: started with autoSignIn at a URL carrying a refreshToken, a failure
\* of the exchange with a network error or an internal error leaves the
\* machine in signedOut.noErrors with the error in errors.authentication; a
\* success leaves it in running.pending with a non-null user.
C13_AutoSignInOutcome ==
    [][/\ (last'.kind = "START" /\ autoSignIn /\ last'.error = "refreshToken" =>
             exchange' = "start" /\ authState' = "noErrors")
       /\ (UrlTokenExchange /\ ExchangeSucceeded =>
             authState' = "pending" /\ user' # Null)
       /\ \A e \in RetriableErrors :
            (UrlTokenExchange /\ ExchangeFailedWith(e)) =>
                /\ authState' = "noErrors"
                /\ errors' = e]_vars

\* The exchange of the URL's token (the storage holds none) met an internal
\* error.
C13_Witness ==
    /\ autoSignIn
    /\ last.kind = "EXCHANGE_ERROR"
    /\ last.after = "START"
    /\ storage[NHOST_REFRESH_TOKEN_KEY] = Null
    /\ authState = "noErrors"
    /\ errors = INTERNAL_ERROR

\* C14 as stated: every sign-in attempt that fails with a retriable error
\* moves the machine to signedOut.failed.
C14_SignInFailureEndsInFailed ==
    [][(\E e \in RetriableErrors : ExchangeFailedWith(e)) =>
         authState' = "failed"]_vars

\* C14 as amended: a sign-in attempt that fails with a retriable error leaves
\* the machine signed out with the error recorded and no session: in
\* signedOut.failed when the attempt was a TRY_TOKEN, in signedOut.noErrors
\* when it was the sign-in made at start.
C14_SignInFailureBySource ==
    [][\A e \in RetriableErrors :
         ExchangeFailedWith(e) =>
             /\ authState' = IF exchange = "tryToken" THEN "failed" ELSE "noErrors"
             /\ errors' = e
             /\ SessionCleared'
             /\ exchange' = "none"]_vars

\* A sign-in at start failed on the network: signed out, but not failed.
C14_Witness ==
    /\ last.kind = "EXCHANGE_ERROR"
    /\ last.after = "START"
    /\ last.error = NETWORK_ERROR.error
    /\ authState = "noErrors"
    /\ errors = NETWORK_ERROR

\* C15: SIGNED_OUT is accepted in every signed-in state, running.refreshing
\* included, and moves the machine to signedOut.noErrors with user, access
\* token and refresh token null, both session keys removed from the storage
\* and the refresh timer cancelled.
C15_SignedOutClearsSession ==
    [][/\ (authState \in SignedInStates => ENABLED SignedOut)
       /\ (authState \in SignedInStates /\ last'.kind = "SIGNED_OUT" =>
             /\ authState' = "noErrors"
             /\ SessionCleared'
             /\ expiresAt' = Null
             /\ \A k \in StorageKeys : storage'[k] = Null
             /\ timer' = Null
             /\ refreshCalls' = 0)]_vars

\* SIGNED_OUT came while the refresh call was in flight.
C15_Witness ==
    /\ last.kind = "SIGNED_OUT"
    /\ last.after = "TIMER"
    /\ "refresh" \in stale
    /\ authState = "noErrors"
    /\ storage[NHOST_REFRESH_TOKEN_KEY] = Null

\* What a response may not touch once its call was given up.
Observable ==
    <<authState, user, accessToken, expiresAt, refreshToken, attempts, errors,
      storage, timer, startedAt>>

\* C16: the response to a call whose issuing state the machine has left
\* changes nothing: state, context, attempts, errors, storage and timer are
\* what they were before the response.
C16_StaleResponseIgnored ==
    [][stale' # stale /\ stale' \subseteq stale => Observable' = Observable]_vars

\* The response to a refresh call arrived after SIGNED_OUT: still signed
\* out, nothing in the storage.
C16_Witness ==
    /\ last.kind = "STALE_RESPONSE"
    /\ last.error = "refresh"
    /\ last.after = "SIGNED_OUT"
    /\ authState = "noErrors"
    /\ SessionCleared
    /\ storage[NHOST_REFRESH_TOKEN_KEY] = Null
    /\ timer = Null

\* The refresh calls in flight: the awaited one and an abandoned one.
RefreshCallsInFlight ==
    refreshCalls + (IF "refresh" \in stale THEN 1 ELSE 0)

StorageMatchesContext ==
    /\ storage[NHOST_REFRESH_TOKEN_KEY] = refreshToken
    /\ storage[NHOST_JWT_EXPIRES_AT_KEY] = expiresAt

\* C18 as stated: in every state of a running machine, the one built with
\* a seeded session over a storage filled on its own included, the storage
\* holds the refresh token and the expiration of the context.
C18_StorageAlwaysMatchesContext ==
    authState # "stopped" => StorageMatchesContext

\* C18 as amended: whenever an event of a running machine changes the
\* refresh token or the expiration of the context, the storage holds the new
\* values after the event. (Until its first such event, a machine built with
\* a seeded session, or started over a storage filled on its own, may hold
\* other values than the storage.)
C18_StorageFollowsContext ==
    [][(/\ authState # "stopped"
        /\ authState' # "stopped"
        /\ <<refreshToken, expiresAt>>' # <<refreshToken, expiresAt>>) =>
          StorageMatchesContext']_vars

\* The seeded machine refreshed its session: the storage now matches.
C18_Witness ==
    /\ seed # Null
    /\ last.kind = "REFRESH_DONE"
    /\ refreshToken # Null
    /\ expiresAt # Null
    /\ StorageMatchesContext

\* C19: the machine sets and removes the refresh-token key and the
\* expiration key only, and what it sets are the refresh token and the
\* expiration of the context: the access token is never written.
C19_OnlySessionKeysStored ==
    [][storage' # storage =>
         /\ DOMAIN storage' = StorageKeys
         /\ \/ StorageMatchesContext'
            \/ \A k \in StorageKeys : storage'[k] = Null]_vars

\* A session with an access token was saved.
C19_Witness ==
    /\ last.kind \in {"SESSION_UPDATE", "REFRESH_DONE", "EXCHANGE_DONE"}
    /\ accessToken # Null
    /\ storage[NHOST_REFRESH_TOKEN_KEY] = refreshToken
    /\ refreshToken # Null
    /\ DOMAIN storage = StorageKeys

\* C20: the stop cancels the timer and gives up the calls in flight; as long
\* as the machine is stopped no timer is armed, no call is issued, and the
\* response to a call that was in flight at the stop leaves context and
\* storage as they were.
C20_StoppedMachineIsQuiet ==
    [][/\ (authState' = "stopped" =>
             /\ timer' = Null
             /\ refreshCalls' = 0
             /\ exchange' = "none"
             /\ netCalls' = 0)
       /\ (authState = "stopped" /\ authState' = "stopped" =>
             /\ UNCHANGED <<user, accessToken, expiresAt, refreshToken,
                            attempts, errors, storage>>)
       /\ (last'.kind = "STOP" => storage' = storage)]_vars

\* The response to the refresh call that was in flight at the stop arrived,
\* time went on, and the stopped machine still holds no timer.
C20_Witness ==
    /\ authState = "stopped"
    /\ last.kind = "STALE_RESPONSE"
    /\ last.error = "refresh"
    /\ last.after = "STOP"
    /\ timer = Null
    /\ stale = {}

\* C21: there is no retry cap. Whatever the number of failed attempts, a
\* further retriable refresh failure is taken, counts one more attempt, and
\* leaves the machine in running.pending with the next attempt scheduled by
\* the delay policy used after a success (margin or fixed interval): the
\* number of attempts neither changes the delay nor signs the user out.
C21_RetryWithoutCap ==
    [][/\ (authState = "refreshing" /\ attempts < MaxAttempts =>
             \A e \in RetriableErrors : ENABLED RefreshError(e))
       /\ ((\E e \in RetriableErrors : RefreshFailedWith(e)) =>
             /\ authState' = "pending"
             /\ attempts' = attempts + 1
             /\ timer' = now + Delay(now, expiresAt, refreshIntervalTime)
             /\ startedAt' = now)
       /\ (attempts' # attempts /\ authState \in SignedInStates
             /\ authState' \in SignedOutStates => last'.kind = "SIGNED_OUT")]_vars

\* Two retriable failures in a row, the second rescheduled like the first.
C21_Witness ==
    /\ last.kind = "REFRESH_ERROR"
    /\ last.after = "TIMER"
    /\ last.error \in {e.error : e \in RetriableErrors}
    /\ last.attempts = 1
    /\ attempts = 2
    /\ authState = "pending"
    /\ timer = startedAt + Delay(startedAt, expiresAt, refreshIntervalTime)

\* A step that signs the machine in: a session handed over, or the sign-in
\* exchange succeeding.
SignInSucceeded ==
    /\ authState \in SignedOutStates
    /\ authState' \in SignedInStates
    /\ last'.kind \in {"SESSION_UPDATE", "EXCHANGE_DONE"}

\* C22: the error recorded in the context is cleared by the next success:
\* by a sign-in (TRY_TOKEN exchange or SESSION_UPDATE) from signedOut.failed
\* or from a signedOut.noErrors that holds an error, and by a successful
\* refresh after a failed one.
C22_ErrorsClearedOnSuccess ==
    [][(errors # NoError /\ (SignInSucceeded \/ RefreshSucceeded)) =>
         errors' = NoError]_vars

\* A refresh succeeded after a failed one: no error is left.
C22_Witness ==
    /\ last.kind = "REFRESH_DONE"
    /\ last.attempts > 0
    /\ authState = "pending"
    /\ attempts = 0
    /\ errors = NoError

\* A step in which the response to a given-up refresh call arrives while the
\* machine is signed in.
StaleRefreshWhileSignedIn ==
    /\ authState \in SignedInStates
    /\ "refresh" \in stale
    /\ "refresh" \notin stale'

\* C23: when a refresh call was in flight at SIGNED_OUT and the caller has
\* signed in again before it resolves, its response is still ignored: user,
\* access token, refresh token, expiration and attempts of the new session
\* stay, and the response does not stand for the new session's refresh (the
\* state, the awaited call and the timer stay).
C23_StaleRefreshAfterSignIn ==
    [][StaleRefreshWhileSignedIn =>
         /\ UNCHANGED <<user, accessToken, refreshToken, expiresAt, attempts>>
         /\ UNCHANGED <<authState, refreshCalls, timer, startedAt, storage>>
         /\ accessToken' # Null]_vars

\* Signed out during a refresh, then a session without expiration was handed
\* over: while its own refresh is awaited, the old response arrives.
C23_Witness ==
    /\ last.kind = "STALE_RESPONSE"
    /\ last.error = "refresh"
    /\ last.after = "SESSION_UPDATE"
    /\ authState = "refreshing"
    /\ refreshCalls = 1
    /\ user = 2
    /\ accessToken = issued

\* A step that starts again, with autoSignIn disabled, a machine built
\* without a seeded session that was stopped right after an event of kind k.
RestartAfter(k) ==
    /\ authState = "stopped"
    /\ authState' # "stopped"
    /\ last.kind = "STOP"
    /\ last.after = k
    /\ ~autoSignIn
    /\ seed = Null

\* The machine is signed out and has issued no call.
SignedOutAndQuiet ==
    /\ authState = "noErrors"
    /\ SessionCleared
    /\ exchange = "none"
    /\ refreshCalls = 0
    /\ netCalls = 0
    /\ timer = Null

====
